---- MODULE Spec2Model ----
(***************************************************************************)
(* GeoDecode: offline reverse geocoding (src/geodecode.go).                *)
(*                                                                         *)
(* The model has two layers.                                               *)
(*  - Pure operators for the key type (geoPoint, geoPoints), the CSV       *)
(*    parse loop of loadData, the tree construction and nearest search of  *)
(*    the kdtree dependency, and the body of Query.                        *)
(*  - A state machine of goroutines calling GetRGeocoder, Query and        *)
(*    FindLocation on the process-wide singleton, with sync.Once spelled   *)
(*    out as its fast path, mutex, re-check and deferred store.            *)
(*                                                                         *)
(* Abstractions: coordinates are integers (float64 in the code); a CSV     *)
(* field is the pair strconv.ParseFloat returns for it; a record's City is *)
(* the number of the CSV row it was read from, which makes every record    *)
(* distinguishable; logging is not modelled, only the reads of rg.verbose  *)
(* that guard it.                                                          *)
(***************************************************************************)
EXTENDS Integers, Sequences, FiniteSets, TLC

VARIABLES
  rawCSVData,        \* the data source loadData reads (embedded bytes or file)
  currentSortDim,    \* package-level variable read by Less
  geocoderInstance,  \* FALSE: nil, TRUE: points at the singleton rg
  geocoderOnce,      \* sync.Once guarding the creation of the singleton
  rg,                \* the RGeocoder: tree, locations, once, verbose
  pc,                \* per goroutine: the statement it is about to execute
  frame,             \* per goroutine: the exported function it called
  arg,               \* per goroutine: arguments of the running call
  local,             \* per goroutine: loadData's parsedGeoPoints/loadedLocations
  ret,               \* per goroutine: the value its last call returned
  ref,               \* per goroutine: holds the pointer GetRGeocoder returned
  loadCount,         \* history: number of times loadData was entered
  loadsReturned      \* history: number of times loadData returned

vars == <<rawCSVData, currentSortDim, geocoderInstance, geocoderOnce, rg, pc,
          frame, arg, local, ret, ref, loadCount, loadsReturned>>

(***************************************************************************)
(* Bounds of the model and constants of the program.                       *)
(***************************************************************************)
NumProcs == 2      \* goroutines of the concurrent specification
MaxRows == 2       \* CSV rows of the concurrent specification
MaxKeys == 4       \* CSV rows of the sequential (index) specification
MaxLat == 90
MaxLon == 180

Procs == 1..NumProcs

(***************************************************************************)
(* geoPoint and geoPoints.                                                 *)
(***************************************************************************)
At(s, i) == s[i + 1]    \* Go's zero-based s[i]

\* Mutant of Compare: the plane is ignored, latitude is always compared.
CompareLatOnly(p, c, d) == At(p.LatLon, 0) - At(c.LatLon, 0)

Compare(p, c, d) == At(p.LatLon, d) - At(c.LatLon, d)

Dims == 2

Distance(p, c) ==
  LET dLat == At(p.LatLon, 0) - At(c.LatLon, 0)
      dLon == At(p.LatLon, 1) - At(c.LatLon, 1)
  IN dLat * dLat + dLon * dLon

Swap(p, i, j) ==
  IF i < 0 \/ j < 0 \/ i >= Len(p) \/ j >= Len(p)
  THEN p
  ELSE [p EXCEPT ![i + 1] = p[j + 1], ![j + 1] = p[i + 1]]

\* Mutant of Less: the comparison is reversed.
LessReversed(p, i, j, sortDim) ==
  At(At(p, i).LatLon, sortDim) > At(At(p, j).LatLon, sortDim)

\* sortDim is the value of the package-level currentSortDim at the call.
Less(p, i, j, sortDim) ==
  At(At(p, i).LatLon, sortDim) < At(At(p, j).LatLon, sortDim)

Slice(p, start, end) == SubSeq(p, start + 1, end)

(***************************************************************************)
(* The kdtree dependency (gonum.org/v1/gonum/spatial/kdtree), which the    *)
(* repository imports and whose code is not part of it.  Partition, build, *)
(* New, search and Nearest follow the library's algorithms: Partition      *)
(* moves the element at index pivot to the end, sweeps the elements that   *)
(* are not greater than it to the front and puts it behind them; build     *)
(* makes the element Pivot returns the node and recurses on the slices     *)
(* before and after it with the next plane; search is the branch-and-bound *)
(* descent of spec section 4.2.                                            *)
(***************************************************************************)
RECURSIVE PartitionLoop(_, _, _, _, _)
PartitionLoop(list, i, index, last, sortDim) ==
  IF i >= last
  THEN <<list, index>>
  ELSE IF ~Less(list, last, i, sortDim)
       THEN PartitionLoop(Swap(list, index, i), i + 1, index + 1, last, sortDim)
       ELSE PartitionLoop(list, i + 1, index, last, sortDim)

\* Returns <<the list as rearranged, the final index of the pivot element>>.
Partition(list, pivot, sortDim) ==
  LET last == Len(list) - 1
  IN IF last < 0
     THEN <<list, -1>>
     ELSE LET swept == PartitionLoop(Swap(list, pivot, last), 0, 0, last, sortDim)
          IN <<Swap(swept[1], last, swept[2]), swept[2]>>

\* geoPoints.Pivot: sets currentSortDim to dim, then passes dim to Partition
\* as the index of the pivot element.
Pivot(p, dim) == Partition(p, dim, dim)

\* A tree is <<>> (a nil *Node) or <<node>>.
NilNode == <<>>

RECURSIVE build(_, _)
build(p, plane) ==
  IF Len(p) = 0
  THEN NilNode
  ELSE LET pv == Pivot(p, plane)
           q == pv[1]
           piv == pv[2]
           np == (plane + 1) % Dims
       IN << [Point |-> At(q, piv),
              Plane |-> plane,
              Left  |-> build(Slice(q, 0, piv), np),
              Right |-> build(Slice(q, piv + 1, Len(q)), np)] >>

New(p, bounding) == [Root |-> build(p, 0), Count |-> Len(p)]

\* The plane of the last Pivot call of build: what it leaves in currentSortDim.
RECURSIVE LastPlane(_)
LastPlane(n) ==
  IF n[1].Right # NilNode THEN LastPlane(n[1].Right)
  ELSE IF n[1].Left # NilNode THEN LastPlane(n[1].Left)
  ELSE n[1].Plane

\* math.Inf(1): above every squared distance between coordinates in range.
Inf == (2 * MaxLat) * (2 * MaxLat) + (2 * MaxLon) * (2 * MaxLon) + 1

Min(a, b) == IF a < b THEN a ELSE b

\* Returns <<the best node found (a tree), its squared distance>>.
RECURSIVE search(_, _, _)
search(n, q, dist) ==
  IF n = NilNode
  THEN <<NilNode, Inf>>
  ELSE LET c == Compare(q, n[1].Point, n[1].Plane)
           d0 == Min(dist, Distance(q, n[1].Point))
       IN IF c <= 0
          THEN LET l == search(n[1].Left, q, d0)
                   b1 == IF l[2] < d0 THEN l ELSE <<n, d0>>
               IN IF c * c < b1[2]
                  THEN LET r == search(n[1].Right, q, b1[2])
                       IN IF r[2] < b1[2] THEN r ELSE b1
                  ELSE b1
          ELSE LET r == search(n[1].Right, q, d0)
                   b1 == IF r[2] < d0 THEN r ELSE <<n, d0>>
               IN IF c * c < b1[2]
                  THEN LET l == search(n[1].Left, q, b1[2])
                       IN IF l[2] < b1[2] THEN l ELSE b1
                  ELSE b1

\* Returns <<the nearest point as <<>> (nil) or <<point>>, its squared distance>>.
Nearest(t, q) ==
  IF t.Root = NilNode
  THEN <<(<<>>), Inf>>
  ELSE LET r == search(t.Root, q, Inf)
       IN IF r[1] = NilNode THEN <<(<<>>), Inf>> ELSE << <<r[1][1].Point>>, r[2] >>

(***************************************************************************)
(* Location, and the CSV source.                                           *)
(*                                                                         *)
(* rawCSVData is [open, header, rows]: open is FALSE when no data is       *)
(* embedded and the file cannot be opened; header is "ok", "error" (the    *)
(* header cannot be read) or "missing_col"; a row is [err, lat, lon] with  *)
(* err the reader's error for the row and lat, lon what ParseFloat gives   *)
(* for the field: [ok, val].                                               *)
(***************************************************************************)
CC == "GH"

EmptyLocation ==
  [Lat |-> 0, Lon |-> 0, City |-> 0, Admin1 |-> "", Admin2 |-> "", CC |-> "",
   Country |-> ""]

\* countries.ByName(cc).Info().Name
CountryName(cc) == IF cc = "GH" THEN "Ghana" ELSE "Unknown"

OutOfRange(lat, lon) == lat < -MaxLat \/ lat > MaxLat \/ lon < -MaxLon \/ lon > MaxLon

\* Mutant of SkipRow: the range of the coordinates is not checked.
SkipRowParseOnly(r) == ~r.lat.ok \/ ~r.lon.ok

\* The condition of line 202 under which a row is skipped.
SkipRow(r) == ~r.lat.ok \/ ~r.lon.ok \/ OutOfRange(r.lat.val, r.lon.val)

\* The read loop of loadData (lines 186-226) from row i on: the records and
\* keys appended so far are loaded and parsed.  A record's City is its row.
RECURSIVE readRows(_, _, _, _)
readRows(rows, i, loaded, parsed) ==
  IF i > Len(rows)
  THEN [loadedLocations |-> loaded, parsedGeoPoints |-> parsed]
  ELSE IF rows[i].err \/ SkipRow(rows[i])
       THEN readRows(rows, i + 1, loaded, parsed)
       ELSE LET fullLocation ==
                  [Lat |-> rows[i].lat.val, Lon |-> rows[i].lon.val, City |-> i,
                   Admin1 |-> "a1", Admin2 |-> "a2", CC |-> CC, Country |-> ""]
                key == [LatLon |-> <<rows[i].lat.val, rows[i].lon.val>>,
                        Index |-> Len(loaded)]
            IN readRows(rows, i + 1, Append(loaded, fullLocation),
                        Append(parsed, key))

NoData == [loadedLocations |-> <<>>, parsedGeoPoints |-> <<>>]

\* loadData up to line 234: what it has parsed, and whether it returns early
\* (file missing, header unreadable, column missing, no valid row).
LoadParse(src) ==
  IF ~src.open \/ src.header # "ok"
  THEN [early |-> TRUE, data |-> NoData]
  ELSE LET d == readRows(src.rows, 1, <<>>, <<>>)
       IN [early |-> Len(d.parsedGeoPoints) = 0, data |-> d]

(***************************************************************************)
(* Query after the load barrier (lines 260-318).  tree is <<>> (nil) or    *)
(* <<t>>.  The result is [isNil, items]: Go's nil slice, or a slice.       *)
(***************************************************************************)
NilResult == [isNil |-> TRUE, items |-> <<>>]

RECURSIVE QueryLoop(_, _, _, _, _)
QueryLoop(tree, locations, coordinates, i, results) ==
  IF i > Len(coordinates)
  THEN [isNil |-> FALSE, items |-> results]
  ELSE LET coord == coordinates[i]
       IN IF OutOfRange(coord[1], coord[2])
          THEN NilResult
          ELSE IF tree = <<>> /\ Len(locations) = 1
          THEN QueryLoop(tree, locations, coordinates, i + 1,
                         Append(results, locations[1]))
          ELSE LET queryPoint == [LatLon |-> coord, Index |-> 0]
                   nn == Nearest(tree[1], queryPoint)
               IN IF nn[1] = <<>> \/ nn[2] >= Inf
                  THEN QueryLoop(tree, locations, coordinates, i + 1,
                                 Append(results, EmptyLocation))
                  ELSE IF nn[1][1].Index >= 0 /\ nn[1][1].Index < Len(locations)
                  THEN QueryLoop(tree, locations, coordinates, i + 1,
                                 Append(results, At(locations, nn[1][1].Index)))
                  ELSE QueryLoop(tree, locations, coordinates, i + 1,
                                 Append(results, EmptyLocation))

\* Mutant of QueryResult: an out-of-range coordinate is skipped, not fatal.
QueryResultSkipInvalid(tree, locations, coordinates) ==
  IF tree = <<>> /\ Len(locations) = 0
  THEN [isNil |-> FALSE, items |-> <<>>]
  ELSE QueryLoop(tree, locations,
                 SelectSeq(coordinates, LAMBDA c : ~OutOfRange(c[1], c[2])),
                 1, <<>>)

QueryResult(tree, locations, coordinates) ==
  IF tree = <<>> /\ Len(locations) = 0
  THEN [isNil |-> FALSE, items |-> <<>>]
  ELSE IF Len(coordinates) = 0
  THEN [isNil |-> FALSE, items |-> <<>>]
  ELSE QueryLoop(tree, locations, coordinates, 1, <<>>)

\* Whether Query reads rg.verbose (line 276): it reaches an out-of-range
\* coordinate.
QueryReadsVerbose(tree, locations, coordinates) ==
  /\ ~(tree = <<>> /\ Len(locations) = 0)
  /\ \E i \in 1..Len(coordinates) : OutOfRange(coordinates[i][1], coordinates[i][2])

(***************************************************************************)
(* The goroutines.  sync.Once.Do(f) is: load done; if it is not set, lock  *)
(* m, load done again, and if it is still not set run f and then store     *)
(* done (deferred); unlock m.                                              *)
(***************************************************************************)
ZeroOnce == [done |-> FALSE, m |-> 0]      \* m: 0 unlocked, else the holder

ZeroRGeocoder ==
  [tree |-> <<>>, locations |-> <<>>, once |-> ZeroOnce, verbose |-> FALSE]

ZeroArg == [verbose |-> FALSE, coordinates |-> <<>>]

ZeroLocal == [data |-> NoData, results |-> NilResult]

NoRet == [op |-> "none", coordinates |-> <<>>, isNil |-> TRUE, items |-> <<>>]

Returned(op, coordinates, isNil, items) ==
  [op |-> op, coordinates |-> coordinates, isNil |-> isNil, items |-> items]

\* The caller invokes FindLocation(c, v).
CallFindLocation(p, Coords) ==
  /\ pc[p] = "idle"
  /\ \E c \in Coords, v \in BOOLEAN :
       arg' = [arg EXCEPT ![p] = [verbose |-> v, coordinates |-> <<c>>]]
  /\ pc' = [pc EXCEPT ![p] = "FL_entry"]
  /\ frame' = [frame EXCEPT ![p] = "FindLocation"]
  /\ ret' = [ret EXCEPT ![p] = NoRet]
  /\ UNCHANGED <<rawCSVData, currentSortDim, geocoderInstance, geocoderOnce, rg,
                 local, ref, loadCount, loadsReturned>>

\* Mutant of FindLocationCheck: no range check before GetRGeocoder.
FindLocationCheckMissing(p) ==
  /\ pc[p] = "FL_entry"
  /\ pc' = [pc EXCEPT ![p] = "GR_fast"]
  /\ UNCHANGED <<rawCSVData, currentSortDim, geocoderInstance, geocoderOnce, rg,
                 frame, arg, local, ret, ref, loadCount, loadsReturned>>

\* FindLocation, lines 336-340: the range check, then the call of GetRGeocoder.
FindLocationCheck(p) ==
  /\ pc[p] = "FL_entry"
  /\ LET c == arg[p].coordinates[1]
     IN IF OutOfRange(c[1], c[2])
        THEN /\ pc' = [pc EXCEPT ![p] = "idle"]
             /\ frame' = [frame EXCEPT ![p] = "none"]
             /\ ret' = [ret EXCEPT ![p] =
                          Returned("FindLocation", arg[p].coordinates, TRUE, <<>>)]
             /\ arg' = [arg EXCEPT ![p] = ZeroArg]
        ELSE /\ pc' = [pc EXCEPT ![p] = "GR_fast"]
             /\ UNCHANGED <<frame, ret, arg>>
  /\ UNCHANGED <<rawCSVData, currentSortDim, geocoderInstance, geocoderOnce, rg,
                 local, ref, loadCount, loadsReturned>>

\* The caller invokes GetRGeocoder(v).
CallGetRGeocoder(p, Verbosities) ==
  /\ pc[p] = "idle"
  /\ \E v \in Verbosities :
       arg' = [arg EXCEPT ![p] = [verbose |-> v, coordinates |-> <<>>]]
  /\ pc' = [pc EXCEPT ![p] = "GR_fast"]
  /\ frame' = [frame EXCEPT ![p] = "GetRGeocoder"]
  /\ ret' = [ret EXCEPT ![p] = NoRet]
  /\ UNCHANGED <<rawCSVData, currentSortDim, geocoderInstance, geocoderOnce, rg,
                 local, ref, loadCount, loadsReturned>>

\* geocoderOnce.Do, line 133: the fast path.
GetFast(p) ==
  /\ pc[p] = "GR_fast"
  /\ pc' = [pc EXCEPT ![p] = IF geocoderOnce.done THEN "GR_write" ELSE "GR_lock"]
  /\ UNCHANGED <<rawCSVData, currentSortDim, geocoderInstance, geocoderOnce, rg,
                 frame, arg, local, ret, ref, loadCount, loadsReturned>>

GetLock(p) ==
  /\ pc[p] = "GR_lock"
  /\ geocoderOnce.m = 0
  /\ geocoderOnce' = [geocoderOnce EXCEPT !.m = p]
  /\ pc' = [pc EXCEPT ![p] = "GR_check"]
  /\ UNCHANGED <<rawCSVData, currentSortDim, geocoderInstance, rg, frame, arg,
                 local, ret, ref, loadCount, loadsReturned>>

GetCheck(p) ==
  /\ pc[p] = "GR_check"
  /\ pc' = [pc EXCEPT ![p] = IF geocoderOnce.done THEN "GR_unlock" ELSE "GR_init"]
  /\ UNCHANGED <<rawCSVData, currentSortDim, geocoderInstance, geocoderOnce, rg,
                 frame, arg, local, ret, ref, loadCount, loadsReturned>>

\* Lines 134-136: geocoderInstance = &RGeocoder{verbose: verbose}.
GetInit(p) ==
  /\ pc[p] = "GR_init"
  /\ geocoderInstance' = TRUE
  /\ rg' = [ZeroRGeocoder EXCEPT !.verbose = arg[p].verbose]
  /\ pc' = [pc EXCEPT ![p] = "GR_store"]
  /\ UNCHANGED <<rawCSVData, currentSortDim, geocoderOnce, frame, arg, local,
                 ret, ref, loadCount, loadsReturned>>

GetStore(p) ==
  /\ pc[p] = "GR_store"
  /\ geocoderOnce' = [geocoderOnce EXCEPT !.done = TRUE]
  /\ pc' = [pc EXCEPT ![p] = "GR_unlock"]
  /\ UNCHANGED <<rawCSVData, currentSortDim, geocoderInstance, rg, frame, arg,
                 local, ret, ref, loadCount, loadsReturned>>

GetUnlock(p) ==
  /\ pc[p] = "GR_unlock"
  /\ geocoderOnce' = [geocoderOnce EXCEPT !.m = 0]
  /\ pc' = [pc EXCEPT ![p] = "GR_write"]
  /\ UNCHANGED <<rawCSVData, currentSortDim, geocoderInstance, rg, frame, arg,
                 local, ret, ref, loadCount, loadsReturned>>

\* Mutant of GetWrite: verbose is set at construction only.
GetReturnOnly(p) ==
  /\ pc[p] = "GR_write"
  /\ IF frame[p] = "GetRGeocoder"
     THEN /\ pc' = [pc EXCEPT ![p] = "idle"]
          /\ frame' = [frame EXCEPT ![p] = "none"]
          /\ ref' = [ref EXCEPT ![p] = TRUE]
          /\ ret' = [ret EXCEPT ![p] = Returned("GetRGeocoder", <<>>, FALSE, <<>>)]
          /\ arg' = [arg EXCEPT ![p] = ZeroArg]
     ELSE /\ pc' = [pc EXCEPT ![p] = "Q_fast"]
          /\ UNCHANGED <<frame, ref, ret, arg>>
  /\ UNCHANGED <<rawCSVData, currentSortDim, geocoderInstance, geocoderOnce, rg,
                 local, loadCount, loadsReturned>>

\* Lines 138-139: geocoderInstance.verbose = verbose; return geocoderInstance.
\* In FindLocation the next statement is geocoder.Query(coordinate).
GetWrite(p) ==
  /\ pc[p] = "GR_write"
  /\ rg' = [rg EXCEPT !.verbose = arg[p].verbose]
  /\ IF frame[p] = "GetRGeocoder"
     THEN /\ pc' = [pc EXCEPT ![p] = "idle"]
          /\ frame' = [frame EXCEPT ![p] = "none"]
          /\ ref' = [ref EXCEPT ![p] = TRUE]
          /\ ret' = [ret EXCEPT ![p] = Returned("GetRGeocoder", <<>>, FALSE, <<>>)]
          /\ arg' = [arg EXCEPT ![p] = ZeroArg]
     ELSE /\ pc' = [pc EXCEPT ![p] = "Q_fast"]
          /\ UNCHANGED <<frame, ref, ret, arg>>
  /\ UNCHANGED <<rawCSVData, currentSortDim, geocoderInstance, geocoderOnce,
                 local, loadCount, loadsReturned>>

\* The caller invokes rg.Query(batch...) on the pointer it holds.
CallQuery(p, Batches) ==
  /\ pc[p] = "idle"
  /\ ref[p]
  /\ \E b \in Batches :
       arg' = [arg EXCEPT ![p] = [verbose |-> FALSE, coordinates |-> b]]
  /\ pc' = [pc EXCEPT ![p] = "Q_fast"]
  /\ frame' = [frame EXCEPT ![p] = "Query"]
  /\ ret' = [ret EXCEPT ![p] = NoRet]
  /\ UNCHANGED <<rawCSVData, currentSortDim, geocoderInstance, geocoderOnce, rg,
                 local, ref, loadCount, loadsReturned>>

\* Mutant of QueryFast: a plain test of the flag in place of the Once; the
\* caller that finds it unset runs loadData without taking the mutex.
QueryFastUnguarded(p) ==
  /\ pc[p] = "Q_fast"
  /\ pc' = [pc EXCEPT ![p] = IF rg.once.done THEN "Q_body" ELSE "LD_parse"]
  /\ UNCHANGED <<rawCSVData, currentSortDim, geocoderInstance, geocoderOnce, rg,
                 frame, arg, local, ret, ref, loadCount, loadsReturned>>

\* rg.once.Do(rg.loadData), line 258: the fast path.
QueryFast(p) ==
  /\ pc[p] = "Q_fast"
  /\ pc' = [pc EXCEPT ![p] = IF rg.once.done THEN "Q_body" ELSE "Q_lock"]
  /\ UNCHANGED <<rawCSVData, currentSortDim, geocoderInstance, geocoderOnce, rg,
                 frame, arg, local, ret, ref, loadCount, loadsReturned>>

QueryLock(p) ==
  /\ pc[p] = "Q_lock"
  /\ rg.once.m = 0
  /\ rg' = [rg EXCEPT !.once.m = p]
  /\ pc' = [pc EXCEPT ![p] = "Q_check"]
  /\ UNCHANGED <<rawCSVData, currentSortDim, geocoderInstance, geocoderOnce,
                 frame, arg, local, ret, ref, loadCount, loadsReturned>>

QueryCheck(p) ==
  /\ pc[p] = "Q_check"
  /\ pc' = [pc EXCEPT ![p] = IF rg.once.done THEN "Q_unlock" ELSE "LD_parse"]
  /\ UNCHANGED <<rawCSVData, currentSortDim, geocoderInstance, geocoderOnce, rg,
                 frame, arg, local, ret, ref, loadCount, loadsReturned>>

\* loadData, lines 144-234: open the source, read the header and the rows.
LoadDataParse(p) ==
  /\ pc[p] = "LD_parse"
  /\ loadCount' = loadCount + 1
  /\ LET r == LoadParse(rawCSVData)
     IN IF r.early
        THEN /\ pc' = [pc EXCEPT ![p] = "Q_store"]
             /\ loadsReturned' = loadsReturned + 1
             /\ UNCHANGED local
        ELSE /\ pc' = [pc EXCEPT ![p] =
                         IF Len(r.data.parsedGeoPoints) = 1
                         THEN "LD_single" ELSE "LD_tree"]
             /\ local' = [local EXCEPT ![p].data = r.data]
             /\ UNCHANGED loadsReturned
  /\ UNCHANGED <<rawCSVData, currentSortDim, geocoderInstance, geocoderOnce, rg,
                 frame, arg, ret, ref>>

\* Mutant of LoadDataSingle: the tree is built for a single point too.
LoadDataSingleWithTree(p) ==
  /\ pc[p] = "LD_single"
  /\ rg' = [rg EXCEPT !.locations = local[p].data.loadedLocations,
                      !.tree = <<New(local[p].data.parsedGeoPoints, FALSE)>>]
  /\ local' = [local EXCEPT ![p].data = NoData]
  /\ loadsReturned' = loadsReturned + 1
  /\ pc' = [pc EXCEPT ![p] = "Q_store"]
  /\ UNCHANGED <<rawCSVData, currentSortDim, geocoderInstance, geocoderOnce,
                 frame, arg, ret, ref, loadCount>>

\* Lines 236-241: one valid point, no tree.
LoadDataSingle(p) ==
  /\ pc[p] = "LD_single"
  /\ rg' = [rg EXCEPT !.locations = local[p].data.loadedLocations, !.tree = <<>>]
  /\ local' = [local EXCEPT ![p].data = NoData]
  /\ loadsReturned' = loadsReturned + 1
  /\ pc' = [pc EXCEPT ![p] = "Q_store"]
  /\ UNCHANGED <<rawCSVData, currentSortDim, geocoderInstance, geocoderOnce,
                 frame, arg, ret, ref, loadCount>>

\* Line 244: rg.tree = kdtree.New(parsedGeoPoints, false).
LoadDataTree(p) ==
  /\ pc[p] = "LD_tree"
  /\ LET t == New(local[p].data.parsedGeoPoints, FALSE)
     IN /\ rg' = [rg EXCEPT !.tree = <<t>>]
        /\ currentSortDim' = LastPlane(t.Root)
  /\ pc' = [pc EXCEPT ![p] = "LD_locs"]
  /\ UNCHANGED <<rawCSVData, geocoderInstance, geocoderOnce, frame, arg, local,
                 ret, ref, loadCount, loadsReturned>>

\* Lines 245-252: rg.locations = loadedLocations, and return.
LoadDataLocations(p) ==
  /\ pc[p] = "LD_locs"
  /\ rg' = [rg EXCEPT !.locations = local[p].data.loadedLocations]
  /\ local' = [local EXCEPT ![p].data = NoData]
  /\ loadsReturned' = loadsReturned + 1
  /\ pc' = [pc EXCEPT ![p] = "Q_store"]
  /\ UNCHANGED <<rawCSVData, currentSortDim, geocoderInstance, geocoderOnce,
                 frame, arg, ret, ref, loadCount>>

QueryStore(p) ==
  /\ pc[p] = "Q_store"
  /\ rg' = [rg EXCEPT !.once.done = TRUE]
  /\ pc' = [pc EXCEPT ![p] = "Q_unlock"]
  /\ UNCHANGED <<rawCSVData, currentSortDim, geocoderInstance, geocoderOnce,
                 frame, arg, local, ret, ref, loadCount, loadsReturned>>

QueryUnlock(p) ==
  /\ pc[p] = "Q_unlock"
  /\ rg' = [rg EXCEPT !.once.m = 0]
  /\ pc' = [pc EXCEPT ![p] = "Q_body"]
  /\ UNCHANGED <<rawCSVData, currentSortDim, geocoderInstance, geocoderOnce,
                 frame, arg, local, ret, ref, loadCount, loadsReturned>>

\* Query, lines 260-318, and its return.
QueryBody(p) ==
  /\ pc[p] = "Q_body"
  /\ LET results == QueryResult(rg.tree, rg.locations, arg[p].coordinates)
     IN IF frame[p] = "Query"
        THEN /\ pc' = [pc EXCEPT ![p] = "idle"]
             /\ frame' = [frame EXCEPT ![p] = "none"]
             /\ ret' = [ret EXCEPT ![p] =
                          Returned("Query", arg[p].coordinates, results.isNil,
                                   results.items)]
             /\ arg' = [arg EXCEPT ![p] = ZeroArg]
             /\ UNCHANGED local
        ELSE /\ pc' = [pc EXCEPT ![p] = "FL_ret"]
             /\ local' = [local EXCEPT ![p].results = results]
             /\ UNCHANGED <<frame, ret, arg>>
  /\ UNCHANGED <<rawCSVData, currentSortDim, geocoderInstance, geocoderOnce, rg,
                 ref, loadCount, loadsReturned>>

\* Mutant of FindLocationReturn: result points into rg.locations, so the
\* write of Country lands in the dataset.
FindLocationReturnAliased(p) ==
  /\ pc[p] = "FL_ret"
  /\ LET results == local[p].results.items
     IN IF Len(results) > 0
        THEN LET result == [results[1] EXCEPT !.Country = CountryName(results[1].CC)]
             IN /\ ret' = [ret EXCEPT ![p] =
                             Returned("FindLocation", arg[p].coordinates, FALSE,
                                      <<result>>)]
                /\ rg' = [rg EXCEPT !.locations =
                            [i \in DOMAIN rg.locations |->
                               IF rg.locations[i].City = result.City
                               THEN result ELSE rg.locations[i]]]
        ELSE /\ ret' = [ret EXCEPT ![p] =
                          Returned("FindLocation", arg[p].coordinates, TRUE, <<>>)]
             /\ UNCHANGED rg
  /\ pc' = [pc EXCEPT ![p] = "idle"]
  /\ frame' = [frame EXCEPT ![p] = "none"]
  /\ arg' = [arg EXCEPT ![p] = ZeroArg]
  /\ local' = [local EXCEPT ![p].results = NilResult]
  /\ UNCHANGED <<rawCSVData, currentSortDim, geocoderInstance, geocoderOnce,
                 ref, loadCount, loadsReturned>>

\* FindLocation, lines 342-348: results is the slice Query returned, result
\* points at its first element, whose Country is written.
FindLocationReturn(p) ==
  /\ pc[p] = "FL_ret"
  /\ LET results == local[p].results.items
     IN IF Len(results) > 0
        THEN LET result == [results[1] EXCEPT !.Country = CountryName(results[1].CC)]
             IN ret' = [ret EXCEPT ![p] =
                          Returned("FindLocation", arg[p].coordinates, FALSE,
                                   <<result>>)]
        ELSE ret' = [ret EXCEPT ![p] =
                       Returned("FindLocation", arg[p].coordinates, TRUE, <<>>)]
  /\ pc' = [pc EXCEPT ![p] = "idle"]
  /\ frame' = [frame EXCEPT ![p] = "none"]
  /\ arg' = [arg EXCEPT ![p] = ZeroArg]
  /\ local' = [local EXCEPT ![p].results = NilResult]
  /\ UNCHANGED <<rawCSVData, currentSortDim, geocoderInstance, geocoderOnce, rg,
                 ref, loadCount, loadsReturned>>

(***************************************************************************)
(* Inputs.                                                                 *)
(***************************************************************************)
Parsed(v) == [ok |-> TRUE, val |-> v]
Unparsed == [ok |-> FALSE, val |-> 0]
Row(lat, lon) == [err |-> FALSE, lat |-> Parsed(lat), lon |-> Parsed(lon)]

SeqsUpTo(S, n) == UNION {[1..k -> S] : k \in 0..n}

\* Sources of the concurrent specification: the three failures of the load,
\* and up to MaxRows rows, each valid or out of range.
Failures ==
  {[open |-> FALSE, header |-> "ok", rows |-> <<>>],
   [open |-> TRUE, header |-> "error", rows |-> <<>>],
   [open |-> TRUE, header |-> "missing_col", rows |-> <<Row(0, 0)>>]}

ConcRows == {Row(0, 0), Row(2, 3), Row(MaxLat + 1, 0)}

ConcSources ==
  Failures \cup {[open |-> TRUE, header |-> "ok", rows |-> r] :
                   r \in SeqsUpTo(ConcRows, MaxRows)}

ConcCoords == {<<0, 0>>, <<MaxLat + 1, 0>>}

ConcBatches == {<<>>, << <<1, 1>> >>, << <<1, 1>>, <<-MaxLat - 1, 0>> >>}

\* Sources of the sequential specification: up to MaxKeys rows, each a key on
\* a grid, out of range, unparseable or unreadable.
GridRows == {Row(lat, lon) : lat \in {0, 2, 4}, lon \in {0, 3}}

BadRows ==
  {Row(0, MaxLon + 1),
   [err |-> FALSE, lat |-> Unparsed, lon |-> Parsed(0)],
   [err |-> TRUE, lat |-> Parsed(0), lon |-> Parsed(0)]}

SeqSources ==
  {[open |-> TRUE, header |-> "ok", rows |-> r] :
     r \in SeqsUpTo(GridRows, MaxKeys) \cup SeqsUpTo(GridRows \cup BadRows, 2)}

\* Queries of the sequential specification: on, between and outside the
\* keys, on the boundary of the valid range, and outside it.
GoodCoords ==
  {<<1, 1>>, <<3, 0>>, <<0, 3>>, <<4, 1>>, <<2, 5>>, <<-1, 2>>,
   <<MaxLat, MaxLon>>, <<-MaxLat, -MaxLon>>}

BadCoords ==
  {<<MaxLat + 1, 0>>, <<-MaxLat - 1, 0>>, <<0, MaxLon + 1>>, <<0, -MaxLon - 1>>}

SeqBatches ==
  {<<c>> : c \in GoodCoords \cup BadCoords}
    \cup {<<>>, << <<1, 1>>, <<3, 0>> >>, << <<1, 1>>, <<0, MaxLon + 1>> >>,
          << <<-MaxLat - 1, 0>>, <<1, 1>> >>}

(***************************************************************************)
(* Specifications.                                                         *)
(***************************************************************************)
InitWith(Sources) ==
  /\ rawCSVData \in Sources
  /\ currentSortDim = 0
  /\ geocoderInstance = FALSE
  /\ geocoderOnce = ZeroOnce
  /\ rg = ZeroRGeocoder
  /\ pc = [p \in Procs |-> "idle"]
  /\ frame = [p \in Procs |-> "none"]
  /\ arg = [p \in Procs |-> ZeroArg]
  /\ local = [p \in Procs |-> ZeroLocal]
  /\ ret = [p \in Procs |-> NoRet]
  /\ ref = [p \in Procs |-> FALSE]
  /\ loadCount = 0
  /\ loadsReturned = 0

StepGet(p, Verbosities) ==
  \/ CallGetRGeocoder(p, Verbosities)
  \/ GetFast(p)
  \/ GetLock(p)
  \/ GetCheck(p)
  \/ GetInit(p)
  \/ GetStore(p)
  \/ GetUnlock(p)
  \/ GetWrite(p)

StepQuery(p, Batches) ==
  \/ CallQuery(p, Batches)
  \/ QueryFast(p)
  \/ QueryLock(p)
  \/ QueryCheck(p)
  \/ LoadDataParse(p)
  \/ LoadDataSingle(p)
  \/ LoadDataTree(p)
  \/ LoadDataLocations(p)
  \/ QueryStore(p)
  \/ QueryUnlock(p)
  \/ QueryBody(p)

StepFind(p, Coords) ==
  \/ CallFindLocation(p, Coords)
  \/ FindLocationCheck(p)
  \/ FindLocationReturn(p)

\* Goroutines calling the exported functions concurrently.
Init == InitWith(ConcSources)
Next ==
  \E p \in Procs :
    StepGet(p, BOOLEAN) \/ StepQuery(p, ConcBatches) \/ StepFind(p, ConcCoords)
Spec == Init /\ [][Next]_vars

\* One goroutine that gets the singleton and queries it, over every source
\* of the sequential specification.
InitSeq == InitWith(SeqSources)
NextSeq == StepGet(1, {FALSE}) \/ StepQuery(1, SeqBatches)
SpecSeq == InitSeq /\ [][NextSeq]_vars

(***************************************************************************)
(* Properties.  The predicates below restate the ranges, the distance and  *)
(* the validity of a row on their own, not through the operators above.    *)
(***************************************************************************)
InRange(c) ==
  c[1] \in (-MaxLat)..MaxLat /\ c[2] \in (-MaxLon)..MaxLon

AllInRange(b) == \A i \in 1..Len(b) : InRange(b[i])

SomeOutOfRange(b) == \E i \in 1..Len(b) : ~InRange(b[i])

UsableRow(r) ==
  ~r.err /\ r.lat.ok /\ r.lon.ok /\ InRange(<<r.lat.val, r.lon.val>>)

UsableRows ==
  IF rawCSVData.open /\ rawCSVData.header = "ok"
  THEN {i \in 1..Len(rawCSVData.rows) : UsableRow(rawCSVData.rows[i])}
  ELSE {}

SqDist(loc, c) ==
  (loc.Lat - c[1]) * (loc.Lat - c[1]) + (loc.Lon - c[2]) * (loc.Lon - c[2])

PastBarrier(p) == pc[p] \in {"Q_body", "FL_ret"}

InLoadData(p) == pc[p] \in {"LD_parse", "LD_single", "LD_tree", "LD_locs"}

\* C1: loadData runs at most once, and a caller that is past rg.once.Do finds
\* that one run entered and returned, with no goroutine inside loadData.
C1_LoadOnceBehindBarrier ==
  /\ loadCount <= 1
  /\ loadsReturned <= loadCount
  /\ \A p \in Procs :
       PastBarrier(p) =>
         /\ loadCount = 1
         /\ loadsReturned = 1
         /\ rg.once.done
         /\ \A q \in Procs : ~InLoadData(q)

\* C1 witness: one caller is past the barrier while another, which had seen
\* done unset on the fast path, holds the mutex and is about to re-check.
C1_Witness ==
  \E p, q \in Procs :
    p # q /\ pc[p] = "Q_body" /\ pc[q] = "Q_check" /\ rg.once.done /\ loadCount = 1

\* C2 as stated: a Query whose batch holds an out-of-range coordinate returns
\* nil whatever the state of the service.
C2_InvalidBatchAlwaysNil ==
  \A p \in Procs :
    (ret[p].op = "Query" /\ SomeOutOfRange(ret[p].coordinates)) => ret[p].isNil

\* C2 amended: such a Query returns nil when at least one record was loaded,
\* and the empty non-nil list when none was.
C2_InvalidBatchNilUnlessEmpty ==
  \A p \in Procs :
    (ret[p].op = "Query" /\ SomeOutOfRange(ret[p].coordinates)) =>
      /\ ret[p].items = <<>>
      /\ ret[p].isNil <=> (UsableRows # {})

\* C2 witness: a tree was built, the second coordinate of the batch is out of
\* range, and the call returned nil.
C2_Witness ==
  \E p \in Procs :
    /\ ret[p].op = "Query"
    /\ Len(ret[p].coordinates) = 2
    /\ InRange(ret[p].coordinates[1])
    /\ ~InRange(ret[p].coordinates[2])
    /\ rg.tree # <<>>
    /\ ret[p].isNil

\* C3: with two or more records loaded, a Query of in-range coordinates
\* returns one record of the dataset per coordinate, none farther from its
\* coordinate (squared distance) than any record of the dataset.
C3_NearestIsOptimal ==
  \A p \in Procs :
    (ret[p].op = "Query" /\ Cardinality(UsableRows) >= 2
       /\ AllInRange(ret[p].coordinates)) =>
      /\ ~ret[p].isNil
      /\ Len(ret[p].items) = Len(ret[p].coordinates)
      /\ \A i \in 1..Len(ret[p].items) :
           /\ \E j \in 1..Len(rg.locations) : ret[p].items[i] = rg.locations[j]
           /\ \A j \in 1..Len(rg.locations) :
                SqDist(ret[p].items[i], ret[p].coordinates[i])
                  <= SqDist(rg.locations[j], ret[p].coordinates[i])

\* C3 witness: a dataset of four records, a batch of two coordinates answered
\* by two different records, neither of them the root of the tree.
C3_Witness ==
  \E p \in Procs :
    /\ ret[p].op = "Query"
    /\ Len(rg.locations) = 4
    /\ Len(ret[p].items) = 2
    /\ ret[p].items[1].City # ret[p].items[2].City
    /\ \A i \in 1..2 :
         ret[p].items[i] # At(rg.locations, rg.tree[1].Root[1].Point.Index)

ServiceState == <<geocoderInstance, geocoderOnce, rg, currentSortDim, loadCount>>

\* C4: the step FindLocation takes on an out-of-range coordinate returns nil
\* at once and leaves the singleton, both Once values, the dataset and the
\* tree as they were.
C4_InvalidFindLocationTouchesNothing ==
  [][\A p \in Procs :
       (pc[p] = "FL_entry" /\ pc'[p] # "FL_entry"
          /\ ~InRange(arg[p].coordinates[1])) =>
         /\ pc'[p] = "idle"
         /\ ret'[p].op = "FindLocation"
         /\ ret'[p].isNil
         /\ ServiceState' = ServiceState]_vars

\* C4 witness: FindLocation has returned nil for an out-of-range coordinate
\* and the singleton still does not exist.
C4_Witness ==
  \E p \in Procs :
    /\ ret[p].op = "FindLocation"
    /\ ~InRange(ret[p].coordinates[1])
    /\ ret[p].isNil
    /\ ~geocoderInstance
    /\ ~geocoderOnce.done
    /\ loadCount = 0

\* C5: when the source gives no usable record (it cannot be opened, its
\* header is unreadable or lacks a column, or no row is valid), the dataset
\* and the tree stay empty, loadData is entered at most once, every Query
\* returns the empty list and every FindLocation returns nil.
C5_EmptyIsPermanent ==
  (UsableRows = {}) =>
    /\ rg.tree = <<>>
    /\ rg.locations = <<>>
    /\ loadCount <= 1
    /\ \A p \in Procs :
         /\ ret[p].op = "Query" => (~ret[p].isNil /\ ret[p].items = <<>>)
         /\ ret[p].op = "FindLocation" => ret[p].isNil

\* C5 witness: the source has rows and none is valid; after the one load a
\* FindLocation of a valid coordinate returned nil and a Query of a non-empty
\* batch returned the empty list.
C5_Witness ==
  /\ UsableRows = {}
  /\ rawCSVData.open
  /\ rawCSVData.header = "ok"
  /\ Len(rawCSVData.rows) > 0
  /\ rg.once.done
  /\ loadCount = 1
  /\ \E p, q \in Procs :
       /\ ret[p].op = "FindLocation"
       /\ InRange(ret[p].coordinates[1])
       /\ ret[p].isNil
       /\ ret[q].op = "Query"
       /\ Len(ret[q].coordinates) > 0
       /\ ret[q].items = <<>>

\* C6: when exactly one row is valid, the load builds no tree, keeps that
\* row's record alone, and every Query of in-range coordinates returns it
\* once per coordinate.
C6_SinglePoint ==
  (Cardinality(UsableRows) = 1 /\ rg.once.done) =>
    /\ rg.tree = <<>>
    /\ Len(rg.locations) = 1
    /\ rg.locations[1].City \in UsableRows
    /\ \A p \in Procs :
         (ret[p].op = "Query" /\ AllInRange(ret[p].coordinates)) =>
           /\ ~ret[p].isNil
           /\ ret[p].items = [i \in 1..Len(ret[p].coordinates) |-> rg.locations[1]]

\* C6 witness: the one valid row is the second of two, and a Query of the
\* farthest corner of the range returned its record.
C6_Witness ==
  /\ Cardinality(UsableRows) = 1
  /\ Len(rawCSVData.rows) = 2
  /\ \E p \in Procs :
       /\ ret[p].op = "Query"
       /\ ret[p].coordinates = << <<MaxLat, MaxLon>> >>
       /\ Len(ret[p].items) = 1
       /\ ret[p].items[1].City = 2
       /\ SqDist(ret[p].items[1], <<MaxLat, MaxLon>>) > 0

\* C7: once loadData has returned, no step changes rg.locations or rg.tree.
C7_DatasetAndTreeFrozen ==
  [][loadsReturned >= 1 =>
       (rg'.locations = rg.locations /\ rg'.tree = rg.tree)]_vars

\* C7 witness: FindLocation returned a record with its Country written, and
\* the record of the dataset it was copied from has none.
C7_Witness ==
  \E p \in Procs :
    /\ ret[p].op = "FindLocation"
    /\ ~ret[p].isNil
    /\ ret[p].items[1].Country = "Ghana"
    /\ \E i \in 1..Len(rg.locations) :
         /\ rg.locations[i].City = ret[p].items[1].City
         /\ rg.locations[i].Country = ""

RECURSIVE Keys(_)
Keys(n) ==
  IF n = <<>> THEN {} ELSE {n[1].Point} \cup Keys(n[1].Left) \cup Keys(n[1].Right)

RECURSIVE Size(_)
Size(n) == IF n = <<>> THEN 0 ELSE 1 + Size(n[1].Left) + Size(n[1].Right)

RECURSIVE Ordered(_, _)
Ordered(n, depth) ==
  \/ n = <<>>
  \/ /\ n[1].Plane = depth % 2
     /\ \A k \in Keys(n[1].Left) :
          k.LatLon[n[1].Plane + 1] <= n[1].Point.LatLon[n[1].Plane + 1]
     /\ \A k \in Keys(n[1].Right) :
          k.LatLon[n[1].Plane + 1] >= n[1].Point.LatLon[n[1].Plane + 1]
     /\ Ordered(n[1].Left, depth + 1)
     /\ Ordered(n[1].Right, depth + 1)

\* C8: a tree built from two or more keys holds each key once, splits on
\* depth mod 2, and at every node has the keys of the left subtree at or
\* below the node on the split dimension and those of the right subtree at
\* or above it.
C8_TreeIsOrdered ==
  rg.tree # <<>> =>
    /\ rg.tree[1].Count = Cardinality(UsableRows)
    /\ rg.tree[1].Count >= 2
    /\ Size(rg.tree[1].Root) = rg.tree[1].Count
    /\ {k.Index : k \in Keys(rg.tree[1].Root)} = 0..(rg.tree[1].Count - 1)
    /\ Ordered(rg.tree[1].Root, 0)

\* C8 witness: a tree of four keys, two of them with the same coordinates,
\* whose root has a left and a right subtree.
C8_Witness ==
  /\ rg.tree # <<>>
  /\ rg.tree[1].Count = 4
  /\ rg.tree[1].Root[1].Left # <<>>
  /\ rg.tree[1].Root[1].Right # <<>>
  /\ \E k1, k2 \in Keys(rg.tree[1].Root) : k1.Index # k2.Index /\ k1.LatLon = k2.LatLon

\* C9 as stated, taken at the root and for keys whose latitudes all differ
\* (no tie blurs the median): the key Pivot makes the root is the median by
\* latitude, so the sizes of the two subtrees differ by at most one.
C9_RootIsMedian ==
  (/\ rg.tree # <<>>
   /\ \A k1, k2 \in Keys(rg.tree[1].Root) :
        k1.Index # k2.Index => k1.LatLon[1] # k2.LatLon[1]) =>
    Size(rg.tree[1].Root[1].Left) - Size(rg.tree[1].Root[1].Right) \in {-1, 0, 1}

\* C10: the step of GetRGeocoder that returns writes its argument to
\* rg.verbose, and the goroutine taking it holds neither mutex.
C10_VerboseWrittenUnlocked ==
  [][\A p \in Procs :
       (pc[p] = "GR_write" /\ pc'[p] # "GR_write") =>
         /\ rg'.verbose = arg[p].verbose
         /\ geocoderOnce.m # p
         /\ rg.once.m # p]_vars

\* C10 witness: a goroutine is about to write rg.verbose while another is
\* about to read it at the start of loadData, with nothing ordering the two.
C10_Witness ==
  \E p, q \in Procs :
    /\ p # q
    /\ pc[p] = "GR_write"
    /\ pc[q] = "LD_parse"
    /\ arg[p].verbose # rg.verbose

\* Further races on rg.verbose: two writes of different values, and a write
\* with the read of Query at line 276.
VerboseWriteWriteRace ==
  \E p, q \in Procs :
    p # q /\ pc[p] = "GR_write" /\ pc[q] = "GR_write"
      /\ arg[p].verbose # arg[q].verbose

VerboseWriteQueryReadRace ==
  \E p, q \in Procs :
    /\ p # q
    /\ pc[p] = "GR_write"
    /\ pc[q] = "Q_body"
    /\ QueryReadsVerbose(rg.tree, rg.locations, arg[q].coordinates)
    /\ arg[p].verbose # rg.verbose

====
